---- MODULE Spec2Model ----
(***************************************************************************)
(* Model of the execution engine of API-Test-Coverage                      *)
(* (src/tests/test_executor.py) together with the result models of         *)
(* src/api/models/test_result.py.                                          *)
(*                                                                         *)
(* One TestExecutor is constructed over a list of test cases.  Each call   *)
(* of execute_tests creates one coroutine per test case, lets asyncio      *)
(* run them (every coroutine runs up to its awaited HTTP request, the      *)
(* requests then resolve in any order) and, once asyncio.gather has        *)
(* collected every outcome, builds the result list and the run record.     *)
(***************************************************************************)
EXTENDS Integers, Sequences, FiniteSets, TLC

(***************************************************************************)
(* Bounds of the model.                                                    *)
(***************************************************************************)
MaxTests == 2
MaxCalls == 2

(***************************************************************************)
(* Input domains.                                                          *)
(***************************************************************************)
\* method strings a test case can carry: canonical, lower case, and one
\* that is not a member of EndpointMethod
ValidMethods == {"GET", "get"}
BadMethod == "TRACE"
Endpoints == {"/a", "/b"}
StatusCodes == {200, 404}
RespTimes == {10, 30}
\* str(e) of a transport exception: httpx re-raises the underlying error
\* with message str(exc), which is empty for argument-less exceptions
ExcMessages == {"", "Connection refused"}
\* (method, path) endpoints declared by the loaded API document
DeclaredEndpoints == {<<"GET", "/a">>, <<"GET", "/b">>}

\* the name the generator gives a test case: the operation id, by default
\* f"{method}_{path}", and the suffix of the variant
TestName(m, e, x) ==
    m \o "_" \o e \o (IF x = 200 THEN "_happy_path" ELSE "_missing_params")

\* a test case dict; hasParams = FALSE is a dict without the "params" key
TestCase(m, e, x, p) ==
    [name |-> TestName(m, e, x), method |-> m, endpoint |-> e,
     expected_status_code |-> x, hasParams |-> p]

TestCaseDomain ==
    {TestCase(m, e, x, TRUE) : m \in ValidMethods, e \in Endpoints, x \in StatusCodes}
        \cup {TestCase(BadMethod, "/a", 200, TRUE), TestCase("GET", "/a", 200, FALSE)}

TestCaseLists == UNION {[1..n -> TestCaseDomain] : n \in 0..MaxTests}

(***************************************************************************)
(* api/models/test_result.py                                               *)
(***************************************************************************)
PASSED == "passed"
FAILED == "failed"
ERROR == "error"
SKIPPED == "skipped"
TestStatus == {PASSED, FAILED, ERROR, SKIPPED}

EndpointMethod == {"GET", "POST", "PUT", "DELETE", "PATCH", "HEAD", "OPTIONS"}

\* str.upper() on the method strings of the model
Upper(m) ==
    CASE m = "get" -> "GET"
      [] m = "post" -> "POST"
      [] m = "put" -> "PUT"
      [] m = "delete" -> "DELETE"
      [] m = "patch" -> "PATCH"
      [] m = "head" -> "HEAD"
      [] m = "options" -> "OPTIONS"
      [] m = "trace" -> "TRACE"
      [] OTHER -> m

\* EndpointMethod(value) raises ValueError for a value that is no member
IsEndpointMethod(m) == m \in EndpointMethod

\* str() of the ValueError raised by EndpointMethod(value)
EnumErrorMessage(m) == "'" \o m \o "' is not a valid EndpointMethod"

\* str() of the KeyError raised by test_case["params"]
KeyErrorMessage == "'params'"

\* the key f"{method}:{endpoint}"
EndpointKey(m, e) == m \o ":" \o e

NoResult == [status |-> "none"]

\* how an awaited request ended: not yet, with a response carrying a status
\* code, with httpx.TimeoutException, or with another exception
NoResponse == [kind |-> "none", code |-> 0]
Response(code) == [kind |-> "response", code |-> code]
TimedOut == [kind |-> "timeout", code |-> 0]
Failed == [kind |-> "error", code |-> 0]

\* an id that is empty
GenerateIdEmpty(k) == ""

\* _generate_id(): "res-" and the first eight characters of a fresh uuid4,
\* here the k-th one drawn
GenerateId(k) ==
    "res-" \o (CASE k = 1 -> "3f2a9c1e"
                 [] k = 2 -> "b81d04f7"
                 [] k = 3 -> "5c6e7a20"
                 [] OTHER -> "e94b13d8")

\* TestResult(...) as constructed in _execute_test and _create_error_result;
\* validation_errors None is the empty sequence, id None the empty string
TestResult(tc, st, errs) ==
    [id |-> "",
     test_id |-> tc.name,
     endpoint |-> tc.endpoint,
     method |-> Upper(tc.method),
     status |-> st,
     status_code |-> 0,
     expected_status_code |-> tc.expected_status_code,
     response_time_ms |-> 0,
     validation_errors |-> errs]

VARIABLES
    test_cases,         \* self.test_cases
    results,            \* self.results
    total_endpoints,    \* self.total_endpoints
    covered_endpoints,  \* self.covered_endpoints
    test_run,           \* the TestRun record of the current call
    pc,                 \* "idle", "running", "done" (returned), "raised", "cancelled"
    calls,              \* number of execute_tests calls started
    tpc,                \* per coroutine: "pending", "inflight", "returned", "raised",
                        \* "cancelled"
    tresult,            \* per coroutine: its TestResult object
    texc,               \* per coroutine: str() of the exception it raised
    tresp,              \* per coroutine: how its awaited request ended
    sent,               \* per coroutine: HTTP requests sent to the target
    enum_format,        \* how the interpreter formats a str-valued enum member
    test_runs_db,       \* api/routes/results.py: the stored TestRun records
    put_status,         \* how the PUT .../complete of the last call ended
    api,                \* api/routes/results.py: test_results_db and the last response
    clock,              \* time in timeout intervals, and when each request was sent
    gen,                \* the TestGenerator: its endpoints, template, test cases
    val                 \* one call of _generate_value_from_schema

vars == <<test_cases, results, total_endpoints, covered_endpoints, test_run,
          pc, calls, tpc, tresult, texc, tresp, sent, enum_format,
          test_runs_db, put_status, api, clock, gen, val>>

\* the variables of the executor and of the persistence API
exec_vars == <<test_cases, results, total_endpoints, covered_endpoints, test_run,
               pc, calls, tpc, tresult, texc, tresp, sent, enum_format,
               test_runs_db, put_status, api, clock>>

\* the generator before load_spec, and no value generation under way
GenIdle == [pc |-> "idle"]
ValIdle == [pc |-> "idle"]

N == Len(test_cases)

\* the persistence API after start-up: an empty test_results_db, no request
\* served yet
ApiStarted == [test_results_db |-> <<>>, op |-> "none", status |-> "none", requests |-> 0]

\* the clock when a call of execute_tests begins
ClockAtStart(n) == [now |-> 0, dispatched |-> [i \in 1..n |-> 0]]

NoRun == [total_tests |-> 0, total_endpoints |-> 0, passed_tests |-> 0,
          failed_tests |-> 0, error_tests |-> 0, skipped_tests |-> 0,
          covered_endpoints |-> 0, has_summary |-> FALSE,
          coverage_num |-> 0, coverage_den |-> 1,
          average_num |-> 0, average_den |-> 1,
          success_num |-> 0, success_den |-> 1]

\* TestExecutor.__init__ over the test-case list ts
ExecutorInit(ts) ==
    /\ test_cases = ts
    /\ results = <<>>
    /\ total_endpoints = {}
    /\ covered_endpoints = {}
    /\ test_run = NoRun
    /\ pc = "idle"
    /\ calls = 0
    /\ tpc = [i \in 1..Len(test_cases) |-> "pending"]
    /\ tresult = [i \in 1..Len(test_cases) |-> NoResult]
    /\ texc = [i \in 1..Len(test_cases) |-> ""]
    /\ tresp = [i \in 1..Len(test_cases) |-> NoResponse]
    /\ sent = [i \in 1..Len(test_cases) |-> 0]
    /\ enum_format \in {"value", "name"}
    /\ test_runs_db = <<>>
    /\ put_status = "none"
    /\ api = ApiStarted
    /\ clock = ClockAtStart(Len(ts))

Init ==
    /\ \E ts \in TestCaseLists : ExecutorInit(ts)
    /\ gen = GenIdle
    /\ val = ValIdle

(***************************************************************************)
(* The persistence API (api/routes/results.py) as the executor uses it.    *)
(***************************************************************************)
\* self.run_id, fixed when the executor is constructed
RunId == "run-1"

\* the kinds of value json.dumps encodes; any other kind raises TypeError
JsonEncodableKinds == {"str", "int", "float", "bool", "none", "list", "dict"}

\* the kinds of value in test_run.dict(): start_time is a datetime
TestRunDictKinds == {"str", "int", "none", "datetime"}

\* requests.post(..., json=test_run.dict()) builds a request body
PostRunBodyEncodes == TestRunDictKinds \subseteq JsonEncodableKinds

\* the kinds of value in result.dict(): request_timestamp is a datetime
TestResultDictKinds == {"str", "int", "float", "bool", "none", "dict", "list", "datetime"}

\* requests.post(..., json=result.dict()) builds a request body
PostResultBodyEncodes == TestResultDictKinds \subseteq JsonEncodableKinds

\* whether the POST of a result can reach the API: it is sent only if its
\* body can be built, and then the API is reached or not
SubmitAttempts == IF PostResultBodyEncodes THEN BOOLEAN ELSE {FALSE}

\* a submission whose failure turns the result into an ERROR
SubmitResultFailureIsError(r, reached) ==
    [result |-> IF PostResultBodyEncodes /\ reached THEN r
                ELSE [r EXCEPT !.status = "error", !.status_code = 0,
                               !.validation_errors = <<"Failed to submit test result">>],
     stored |-> PostResultBodyEncodes /\ reached]

\* "Submit the result to the API": the POST is wrapped in try/except, the
\* result is returned as it is, and the API stores it if it got the request
SubmitResult(r, reached) ==
    [result |-> r, stored |-> PostResultBodyEncodes /\ reached]

\* test_results_db.append(result) in create_test_result
StoreResult(a, r) ==
    [a EXCEPT !.test_results_db = Append(@, r), !.op = "create_test_result",
              !.status = "201", !.requests = @ + 1]

\* the TestRun stored by create_test_run for a posted run record
StoredRun(run) ==
    [run_id |-> RunId,
     total_tests |-> run.total_tests,
     passed_tests |-> run.passed_tests,
     failed_tests |-> run.failed_tests,
     error_tests |-> run.error_tests,
     skipped_tests |-> run.skipped_tests,
     total_endpoints |-> run.total_endpoints,
     covered_endpoints |-> run.covered_endpoints,
     has_end_time |-> FALSE,
     has_summary |-> FALSE]

\* the statistics complete_test_run writes
MockStats == [passed_tests |-> 15, failed_tests |-> 3, error_tests |-> 1,
              skipped_tests |-> 2, total_tests |-> 21, covered_endpoints |-> 7]

\* _get_test_run: index of the first stored run with this run_id, 0 if none
GetTestRun(db, run_id) ==
    IF \E k \in 1..Len(db) : db[k].run_id = run_id
    THEN CHOOSE k \in 1..Len(db) :
            /\ db[k].run_id = run_id
            /\ \A j \in 1..(k - 1) : db[j].run_id # run_id
    ELSE 0

\* complete_test_run: the store and the response status after the request;
\* the stored run is updated in place before the summary is computed, and
\* the summary divides by run.total_endpoints
CompleteTestRun(db, run_id) ==
    LET k == GetTestRun(db, run_id)
    IN  IF k = 0 THEN [db |-> db, status |-> "404"]
        ELSE LET run == [db[k] EXCEPT
                            !.has_end_time = TRUE,
                            !.passed_tests = MockStats.passed_tests,
                            !.failed_tests = MockStats.failed_tests,
                            !.error_tests = MockStats.error_tests,
                            !.skipped_tests = MockStats.skipped_tests,
                            !.total_tests = MockStats.total_tests,
                            !.covered_endpoints = MockStats.covered_endpoints]
             IN  IF run.total_endpoints = 0
                 THEN [db |-> [db EXCEPT ![k] = run], status |-> "500"]
                 ELSE [db |-> [db EXCEPT ![k] = [run EXCEPT !.has_summary = TRUE]],
                       status |-> "200"]

(***************************************************************************)
(* TestExecutor.execute_tests, up to the point where the coroutines are    *)
(* handed to asyncio.gather: reset results, record the endpoint keys of    *)
(* the test cases, create the run record.  The POST of the run record to   *)
(* the persistence API is wrapped in try/except and leaves the executor    *)
(* unchanged whether it succeeds or fails; it stores a run only if the     *)
(* request body can be built and the API is reached.                       *)
(***************************************************************************)
TestCaseKeys == {EndpointKey(test_cases[i].method, test_cases[i].endpoint) : i \in 1..N}

BeginExecute ==
    /\ pc \in {"idle", "done", "raised", "cancelled"}
    /\ calls < MaxCalls
    /\ calls' = calls + 1
    /\ results' = <<>>
    /\ total_endpoints' = total_endpoints \cup TestCaseKeys
    /\ test_run' = [NoRun EXCEPT !.total_tests = N,
                                 !.total_endpoints = Cardinality(total_endpoints')]
    /\ tpc' = [i \in 1..N |-> "pending"]
    /\ tresult' = [i \in 1..N |-> NoResult]
    /\ texc' = [i \in 1..N |-> ""]
    /\ tresp' = [i \in 1..N |-> NoResponse]
    /\ sent' = [i \in 1..N |-> 0]
    /\ pc' = "running"
    /\ \E reached \in BOOLEAN :
          test_runs_db' = IF PostRunBodyEncodes /\ reached
                          THEN Append(test_runs_db, StoredRun(test_run'))
                          ELSE test_runs_db
    /\ put_status' = "none"
    /\ clock' = ClockAtStart(N)
    /\ UNCHANGED <<test_cases, covered_endpoints, enum_format, api, gen, val>>

(***************************************************************************)
(* TestExecutor._execute_test, first part: from the start of the coroutine *)
(* to its awaited HTTP request.  asyncio starts the coroutines of a gather *)
(* in argument order and runs each one up to its first suspension.         *)
(***************************************************************************)
\* the methods the if/elif chain of _execute_test dispatches
DispatchMethods == {"GET", "POST", "PUT", "DELETE", "PATCH", "HEAD", "OPTIONS"}

\* an except branch that records the diagnostic but forgets the status
ErrorOutcomeKeepsStatus(r, msg) ==
    [r EXCEPT !.status_code = 0, !.validation_errors = <<msg>>]

\* the except branches of _execute_test
ErrorOutcome(r, msg) ==
    [r EXCEPT !.status = ERROR, !.status_code = 0, !.validation_errors = <<msg>>]

\* "Generate an ID" and "Submit the result to the API", the end of
\* _execute_test: the result with its id as the coroutine returns it, and
\* the store of the API after the POST
Finish(i, r, reached) == SubmitResult([r EXCEPT !.id = GenerateId(i)], reached)

StartTask(i) ==
    /\ pc = "running"
    /\ tpc[i] = "pending"
    /\ \A j \in 1..(i - 1) : tpc[j] # "pending"
    /\ LET tc == test_cases[i]
           method == Upper(tc.method)
       IN  IF ~tc.hasParams
           THEN \* test_case["params"] raises KeyError
                /\ tpc' = [tpc EXCEPT ![i] = "raised"]
                /\ texc' = [texc EXCEPT ![i] = KeyErrorMessage]
                /\ UNCHANGED <<tresult, sent, api, clock>>
           ELSE IF ~IsEndpointMethod(method)
           THEN \* EndpointMethod(method) raises ValueError
                /\ tpc' = [tpc EXCEPT ![i] = "raised"]
                /\ texc' = [texc EXCEPT ![i] = EnumErrorMessage(method)]
                /\ UNCHANGED <<tresult, sent, api, clock>>
           ELSE IF method \in DispatchMethods
           THEN \* the request is sent and awaited
                /\ tpc' = [tpc EXCEPT ![i] = "inflight"]
                /\ tresult' = [tresult EXCEPT ![i] = TestResult(tc, SKIPPED, <<>>)]
                /\ sent' = [sent EXCEPT ![i] = @ + 1]
                /\ clock' = [clock EXCEPT !.dispatched[i] = clock.now]
                /\ UNCHANGED <<texc, api>>
           ELSE \* raise ValueError("Unsupported HTTP method") inside the try
                /\ tpc' = [tpc EXCEPT ![i] = "returned"]
                /\ \E reached \in SubmitAttempts :
                      LET done == Finish(i, ErrorOutcome(TestResult(tc, SKIPPED, <<>>),
                                             "Unsupported HTTP method: " \o method), reached)
                      IN  /\ tresult' = [tresult EXCEPT ![i] = done.result]
                          /\ api' = IF done.stored THEN StoreResult(api, done.result) ELSE api
                /\ UNCHANGED <<texc, sent, clock>>
    /\ UNCHANGED <<test_cases, results, total_endpoints, covered_endpoints,
                   test_run, pc, calls, tresp, enum_format, test_runs_db, put_status,
                   gen, val>>

(***************************************************************************)
(* TestExecutor._execute_test, second part: the awaited request resolves   *)
(* (response, timeout, or any other exception), the result is classified   *)
(* and the coroutine returns it.  The POST of the result to the            *)
(* persistence API is wrapped in try/except and does not touch the result. *)
(***************************************************************************)
\* a status that ignores the comparison of the codes
StatusForAlwaysPassed(code, expected) == PASSED

\* "Determine test status"
StatusFor(code, expected) == IF code = expected THEN PASSED ELSE FAILED

\* a response arrived
ResponseOutcome(r, code, ms) ==
    [r EXCEPT !.status_code = code,
              !.response_time_ms = ms,
              !.status = StatusFor(code, r.expected_status_code)]

TimeoutMessage == "Request timed out"

\* a loop that polls for I/O as soon as one coroutine has suspended
FirstCoroutineStarted == TRUE

\* the event loop runs the first step of every coroutine of the gather
\* before it polls for I/O
EveryCoroutineStarted == \A j \in 1..N : tpc[j] # "pending"

\* the request of coroutine i ended as resp, which left the result r
Resolved(i, resp, r) ==
    /\ tresp' = [tresp EXCEPT ![i] = resp]
    /\ \E reached \in SubmitAttempts :
          LET done == Finish(i, r, reached)
          IN  /\ tresult' = [tresult EXCEPT ![i] = done.result]
              /\ api' = IF done.stored THEN StoreResult(api, done.result) ELSE api
    \* httpx.TimeoutException is raised one timeout interval after the
    \* request was sent; every other outcome arrives within the interval
    /\ clock' = IF resp.kind = "timeout"
                   THEN [clock EXCEPT !.now = IF clock.dispatched[i] + 1 > @
                                              THEN clock.dispatched[i] + 1 ELSE @]
                   ELSE clock

ResolveTask(i) ==
    /\ pc = "running"
    /\ tpc[i] = "inflight"
    /\ EveryCoroutineStarted
    /\ \/ \E code \in StatusCodes, ms \in RespTimes :
            Resolved(i, Response(code), ResponseOutcome(tresult[i], code, ms))
       \/ Resolved(i, TimedOut, ErrorOutcome(tresult[i], TimeoutMessage))
       \/ \E msg \in ExcMessages :
            Resolved(i, Failed, ErrorOutcome(tresult[i], msg))
    /\ tpc' = [tpc EXCEPT ![i] = "returned"]
    /\ UNCHANGED <<test_cases, results, total_endpoints, covered_endpoints,
                   test_run, pc, calls, texc, sent, enum_format, test_runs_db,
                   put_status, gen, val>>

(***************************************************************************)
(* TestExecutor._create_error_result                                       *)
(***************************************************************************)
\* EndpointMethod(test_case["method"].upper()) raises ValueError
CreateErrorResultRaises(tc) == ~IsEndpointMethod(Upper(tc.method))

\* the result it appends to self.results, with the k-th id drawn
CreateErrorResult(tc, msg, k) == [TestResult(tc, ERROR, <<msg>>) EXCEPT !.id = GenerateId(k)]

(***************************************************************************)
(* TestExecutor.execute_tests after asyncio.gather: the outcomes are       *)
(* processed in test-case order, then the statistics are computed and the  *)
(* run is completed with a PUT that carries no body.                       *)
(***************************************************************************)
\* the loop "for i, result in enumerate(results)"; ok = FALSE when
\* _create_error_result raised, res is self.results at that point
RECURSIVE ProcessOutcomes(_, _)
ProcessOutcomes(i, acc) ==
    IF i > N THEN [res |-> acc, ok |-> TRUE]
    ELSE IF tpc[i] = "raised"
         THEN IF CreateErrorResultRaises(test_cases[i])
              THEN [res |-> acc, ok |-> FALSE]
              ELSE ProcessOutcomes(i + 1,
                      Append(acc, CreateErrorResult(test_cases[i], texc[i], i)))
         ELSE ProcessOutcomes(i + 1, Append(acc, tresult[i]))

\* a count whose error tally repeats the failed tally
CountStatusErrorsAsFailed(rs, s) ==
    Cardinality({i \in 1..Len(rs) : rs[i].status = IF s = ERROR THEN FAILED ELSE s})

\* sum(1 for r in self.results if r.status == s)
CountStatus(rs, s) == Cardinality({i \in 1..Len(rs) : rs[i].status = s})

\* sum(r.response_time_ms for r in self.results)
RECURSIVE SumTimes(_)
SumTimes(rs) == IF rs = <<>> THEN 0 ELSE Head(rs).response_time_ms + SumTimes(Tail(rs))

\* f"{result.method}": format() of a member of a (str, Enum) class gives its
\* value ("GET") up to Python 3.10 and its name ("EndpointMethod.GET") from
\* Python 3.11 on
FormatMethod(m) == IF enum_format = "value" THEN m ELSE "EndpointMethod." \o m

\* the keys added to self.covered_endpoints
ResultKeys(rs) == {EndpointKey(FormatMethod(rs[i].method), rs[i].endpoint) : i \in 1..Len(rs)}

\* the summary fractions, each as numerator and denominator
Summary(run, rs, covered, total, passed) ==
    [run EXCEPT !.has_summary = TRUE,
                !.coverage_num = IF total # {} THEN Cardinality(covered) * 100 ELSE 0,
                !.coverage_den = IF total # {} THEN Cardinality(total) ELSE 1,
                !.success_num = IF N > 0 THEN passed * 100 ELSE 0,
                !.success_den = IF N > 0 THEN N ELSE 1,
                !.average_num = IF rs # <<>> THEN SumTimes(rs) ELSE 0,
                !.average_den = IF rs # <<>> THEN Len(rs) ELSE 1]

\* a gather that returns as soon as every coroutine has been started
EveryUnitStarted == \A i \in 1..N : tpc[i] \in {"inflight", "returned", "raised"}

\* "await asyncio.gather(*tasks, return_exceptions=True)" returns when every
\* coroutine has returned or raised
EveryUnitJoined == \A i \in 1..N : tpc[i] \in {"returned", "raised"}

Gather ==
    /\ pc = "running"
    /\ EveryUnitJoined
    /\ LET out == ProcessOutcomes(1, results)
           rs == out.res
       IN  /\ results' = rs
           /\ IF out.ok
              THEN /\ covered_endpoints' = covered_endpoints \cup ResultKeys(rs)
                   /\ test_run' = Summary(
                          [test_run EXCEPT
                              !.passed_tests = CountStatus(rs, PASSED),
                              !.failed_tests = CountStatus(rs, FAILED),
                              !.error_tests = CountStatus(rs, ERROR),
                              !.skipped_tests = CountStatus(rs, SKIPPED),
                              !.covered_endpoints = Cardinality(covered_endpoints')],
                          rs, covered_endpoints', total_endpoints,
                          CountStatus(rs, PASSED))
                   /\ \E reached \in BOOLEAN :
                         IF reached
                         THEN /\ test_runs_db' = CompleteTestRun(test_runs_db, RunId).db
                              /\ put_status' = CompleteTestRun(test_runs_db, RunId).status
                         ELSE /\ put_status' = "unreachable"
                              /\ UNCHANGED test_runs_db
                   /\ pc' = "done"
              ELSE /\ pc' = "raised"
                   /\ UNCHANGED <<covered_endpoints, test_run, test_runs_db, put_status>>
    /\ UNCHANGED <<test_cases, total_endpoints, calls, tpc, tresult, texc, tresp, sent,
                   enum_format, api, clock, gen, val>>

(***************************************************************************)
(* The caller cancels execute_tests while it awaits asyncio.gather: the    *)
(* CancelledError leaves execute_tests at line 100, gather cancels the     *)
(* coroutines that have not finished, and nothing after line 100 runs.     *)
(***************************************************************************)
Cancel ==
    /\ pc = "running"
    /\ \E i \in 1..N : tpc[i] \in {"pending", "inflight"}
    /\ tpc' = [i \in 1..N |->
                 IF tpc[i] \in {"pending", "inflight"} THEN "cancelled" ELSE tpc[i]]
    /\ pc' = "cancelled"
    /\ UNCHANGED <<test_cases, results, total_endpoints, covered_endpoints,
                   test_run, calls, tresult, texc, tresp, sent, enum_format,
                   test_runs_db, put_status, api, clock, gen, val>>

Next ==
    \/ BeginExecute
    \/ \E i \in 1..N : StartTask(i)
    \/ \E i \in 1..N : ResolveTask(i)
    \/ Gather
    \/ Cancel

Spec == Init /\ [][Next]_vars

TypeOK ==
    /\ pc \in {"idle", "running", "done", "raised", "cancelled"}
    /\ calls \in 0..MaxCalls
    /\ \A i \in 1..N : tpc[i] \in {"pending", "inflight", "returned", "raised", "cancelled"}
    /\ \A i \in 1..Len(results) : results[i].status \in TestStatus

(***************************************************************************)
(* Properties of the execution engine.                                     *)
(***************************************************************************)
\* execute_tests has ended, by returning self.results or by raising
Ended == pc \in {"done", "raised"}

\* execute_tests returned self.results
Returned == pc = "done"

\* the request of test case i completed with a response
Completed(i) == tresp[i].kind = "response"

\* the method of test case i is no member of EndpointMethod
Unsupported(i) == ~IsEndpointMethod(Upper(test_cases[i].method))

\* the status the unit of work of test case i settles on, from its own
\* test case and its own request alone
OwnStatus(i) ==
    IF ~Completed(i) THEN ERROR
    ELSE IF tresp[i].code = test_cases[i].expected_status_code THEN PASSED
    ELSE FAILED

OwnStatusCode(i) == IF Completed(i) THEN tresp[i].code ELSE 0

\* C1: every call of execute_tests returns exactly one result per test case,
\* whatever the requests and units of work do (responses, timeouts,
\* connection failures, raised exceptions).
C1_ReturnsOneResultPerTestCase ==
    Ended => (Returned /\ Len(results) = N)

\* C2: a failure in one unit of work becomes an ERROR result of that test
\* case only: execute_tests returns normally and every result has the status
\* and status code its own test case and request give it.
C2_FailureStaysInItsUnit ==
    Ended => /\ Returned
             /\ Len(results) = N
             /\ \A i \in 1..N : /\ results[i].status = OwnStatus(i)
                                /\ results[i].status_code = OwnStatusCode(i)

\* C3: a test case with a method outside EndpointMethod is reported as an
\* ERROR result, execute_tests does not raise, and the other test cases of
\* the batch still get their results.
C3_UnsupportedMethodIsErrorResult ==
    \A i \in 1..N :
        (Ended /\ Unsupported(i)) =>
            /\ Returned
            /\ Len(results) = N
            /\ results[i].status = ERROR

\* C4: in every returned result, status is PASSED exactly when the request
\* completed with the expected status code, FAILED exactly when it
\* completed with another code; status_code 0 implies ERROR or SKIPPED, and
\* PASSED implies status_code = expected_status_code.
C4_StatusMatchesOutcome ==
    Returned =>
        \A i \in 1..Len(results) :
            /\ results[i].status = PASSED <=>
                  (Completed(i) /\ tresp[i].code = test_cases[i].expected_status_code)
            /\ results[i].status = FAILED <=>
                  (Completed(i) /\ tresp[i].code # test_cases[i].expected_status_code)
            /\ results[i].status_code = 0 => results[i].status \in {ERROR, SKIPPED}
            /\ results[i].status = PASSED =>
                  results[i].status_code = results[i].expected_status_code

\* a call returned a PASSED and a FAILED result
C4_Witness ==
    /\ Returned
    /\ \E i, j \in 1..Len(results) :
          /\ results[i].status = PASSED /\ Completed(i)
          /\ results[j].status = FAILED /\ Completed(j)

\* C5: every returned ERROR result has status_code 0 and a validation_errors
\* list with at least one non-empty diagnostic string.
C5_ErrorCarriesDiagnostic ==
    Returned =>
        \A i \in 1..Len(results) :
            results[i].status = ERROR =>
                /\ results[i].status_code = 0
                /\ \E k \in 1..Len(results[i].validation_errors) :
                      results[i].validation_errors[k] # ""

\* the terminal statuses of a test case
Terminal == {PASSED, FAILED, ERROR}

\* within one call, a result that has reached a terminal status keeps it
StatusIsFinal ==
    \A i \in 1..N :
        (calls' = calls /\ tresult[i].status \in Terminal) => tresult'[i] = tresult[i]

\* C6: within one call each test case goes from pending to exactly one of
\* PASSED, FAILED, ERROR, once: at most one HTTP request is sent per test
\* case (no retry), a terminal status never changes, and no returned result
\* is left SKIPPED.
C6_SingleTransitionNoRetry ==
    /\ [](\A i \in 1..N : sent[i] <= 1)
    /\ [](Returned => \A i \in 1..Len(results) : results[i].status \in Terminal)
    /\ [][StatusIsFinal]_vars

\* a call returned after a request failed, having sent that request once
C6_Witness ==
    /\ Returned
    /\ \E i \in 1..Len(results) :
          /\ results[i].status = ERROR
          /\ tresp[i].kind \in {"timeout", "error"}
          /\ sent[i] = 1

\* the (method, path) pairs across the results
Attempted == {<<results[i].method, results[i].endpoint>> : i \in 1..Len(results)}

\* C7: the coverage percentage is |attempted /\ declared| / |declared| x 100
\* over the endpoints declared by the loaded API document, and is 100
\* exactly when the attempted set equals the declared set.
C7_CoverageOverDeclaredEndpoints ==
    Returned =>
        /\ test_run.coverage_num * Cardinality(DeclaredEndpoints) =
              Cardinality(Attempted \cap DeclaredEndpoints) * 100 * test_run.coverage_den
        /\ (test_run.coverage_num = 100 * test_run.coverage_den) <=>
              (Attempted = DeclaredEndpoints)

\* C8: after every call the covered endpoint set is a subset of the total
\* endpoint set, so covered_endpoints <= total_endpoints in the run record
\* and the coverage percentage is at most 100.
C8_CoveredSubsetOfTotal ==
    Returned =>
        /\ covered_endpoints \subseteq total_endpoints
        /\ test_run.covered_endpoints <= test_run.total_endpoints
        /\ test_run.coverage_num <= 100 * test_run.coverage_den

\* C9: in the run record of a returned call, passed_tests + failed_tests +
\* error_tests + skipped_tests = total_tests.
C9_CountsSumToTotal ==
    Returned =>
        test_run.passed_tests + test_run.failed_tests
            + test_run.error_tests + test_run.skipped_tests = test_run.total_tests

\* a returned call counted a passed, a failed or an error test among two
C9_Witness ==
    /\ Returned
    /\ test_run.total_tests = 2
    /\ test_run.error_tests = 1
    /\ test_run.passed_tests + test_run.failed_tests = 1

\* the completed (non-ERROR) results
CompletedResults == SelectSeq(results, LAMBDA r : r.status # ERROR)

\* C10: the summary's average response time is the mean of response_time_ms
\* over the non-ERROR results only; ERROR results add neither to the sum
\* nor to the divisor.
C10_AverageOverCompletedOnly ==
    Returned =>
        IF CompletedResults = <<>>
        THEN test_run.average_num = 0
        ELSE test_run.average_num * Len(CompletedResults) =
                SumTimes(CompletedResults) * test_run.average_den

\* execute_tests was cancelled while it awaited its units of work
Cancelled == pc = "cancelled"

\* C11: when execute_tests is cancelled with units still in flight, the
\* results of the units that had already resolved are kept in self.results,
\* the unresolved units are abandoned, and no run summary is computed.
C11_CancelKeepsResolvedResults ==
    Cancelled =>
        /\ \A i \in 1..N :
              tpc[i] = "returned" => \E k \in 1..Len(results) : results[k] = tresult[i]
        /\ \A i \in 1..N : tpc[i] \in {"returned", "raised", "cancelled"}
        /\ ~test_run.has_summary

\* the statistics of a stored run equal those of the engine's run record
SameStats(stored, run) ==
    /\ stored.passed_tests = run.passed_tests
    /\ stored.failed_tests = run.failed_tests
    /\ stored.error_tests = run.error_tests
    /\ stored.skipped_tests = run.skipped_tests
    /\ stored.total_tests = run.total_tests
    /\ stored.covered_endpoints = run.covered_endpoints

\* C12: after execute_tests returns with the persistence API reached, the
\* run stored under its run_id carries the passed, failed, error, skipped
\* and total counts and the covered-endpoint count the engine computed.
C12_StoredRunCarriesFinalStats ==
    (Returned /\ put_status \notin {"none", "unreachable"}) =>
        /\ GetTestRun(test_runs_db, RunId) # 0
        /\ SameStats(test_runs_db[GetTestRun(test_runs_db, RunId)], test_run)

\* the request of test case i ended (response, timeout or failure)
RequestEnded(i) == tresp[i].kind # "none"

\* every request of the batch ran into its timeout
EveryRequestTimedOut == N > 0 /\ \A i \in 1..N : tresp[i].kind = "timeout"

\* C23: the test cases of a batch are dispatched concurrently: no request
\* is dispatched after another test case's request has ended or its result
\* has been submitted, every request is sent at the start of the batch, and
\* a batch whose requests all time out has waited one timeout interval.
C23_DispatchIsConcurrent ==
    /\ \A i, j \in 1..N : (RequestEnded(i) \/ tpc[i] = "returned") => tpc[j] # "pending"
    /\ \A j \in 1..N : clock.dispatched[j] = 0
    /\ (Returned /\ EveryRequestTimedOut) => clock.now = 1

\* a batch of two returned after both requests had timed out
C23_Witness ==
    /\ Returned
    /\ N = 2
    /\ EveryRequestTimedOut
    /\ clock.now = 1

\* C24: the counts, the covered-endpoint set and the summary of a call
\* (computed in one step, which sets the summary of the run record) are
\* computed only after every unit of work has resolved and its result is in
\* the results list; no unit is in flight when they are computed.
C24_AggregationAfterJoin ==
    test_run.has_summary =>
        /\ \A i \in 1..N : tpc[i] \in {"returned", "raised"}
        /\ Len(results) = N
        /\ \A i \in 1..N : tpc[i] = "returned" => results[i] = tresult[i]

\* the summary of a batch of two was computed, one of whose requests got
\* its response and the other failed
C24_Witness ==
    /\ test_run.has_summary
    /\ N = 2
    /\ \E i, j \in 1..N : tresp[i].kind = "response" /\ tresp[j].kind = "error"

\* the diagnostics the outcome of unit i gives its result
OwnErrorsOk(i, errs) ==
    IF tpc[i] = "raised" THEN errs = <<texc[i]>>
    ELSE IF tresp[i].kind = "response" THEN errs = <<>>
    ELSE IF tresp[i].kind = "timeout" THEN errs = <<TimeoutMessage>>
    ELSE Len(errs) = 1 /\ errs[1] \in ExcMessages

\* C29: a failing call to the persistence API (creating the run, submitting
\* a result, completing the run) does not change what execute_tests
\* returns: one result per test case, each with the status, status code
\* and validation errors its own outcome gives it.
C29_PersistenceFailureKeepsResults ==
    Returned =>
        /\ Len(results) = N
        /\ \A i \in 1..N :
              /\ results[i].status = OwnStatus(i)
              /\ results[i].status_code = OwnStatusCode(i)
              /\ OwnErrorsOk(i, results[i].validation_errors)

\* a call returned a PASSED result although the run was not stored, no
\* result was stored and the completing PUT did not reach the API
C29_Witness ==
    /\ Returned
    /\ test_runs_db = <<>>
    /\ api.test_results_db = <<>>
    /\ put_status = "unreachable"
    /\ \E i \in 1..Len(results) : results[i].status = PASSED

\* C30: the returned list is in test-case order whatever the order in which
\* the requests end: results[i] has the name and the endpoint of
\* test_cases[i] and a non-empty id.
C30_ResultsInTestCaseOrder ==
    Returned =>
        /\ Len(results) = N
        /\ \A i \in 1..N :
              /\ results[i].test_id = test_cases[i].name
              /\ results[i].endpoint = test_cases[i].endpoint
              /\ results[i].id # ""

\* a call returned for two differently named test cases, the first of
\* which timed out while the second got its response
C30_Witness ==
    /\ Returned
    /\ N = 2
    /\ test_cases[1].name # test_cases[2].name
    /\ test_cases[1].endpoint # test_cases[2].endpoint
    /\ tresp[1].kind = "timeout"
    /\ tresp[2].kind = "response"

\* ---------------------------------------------------------------------
\* TestGenerator._generate_value_from_schema (src/tests/test_generator.py)
\* ---------------------------------------------------------------------

\* schema.get("minimum", 0) and schema.get("maximum", 100)
DefaultMinimum == 0
DefaultMaximum == 100
\* min(10, schema.get("maxLength", 10))
DefaultLength == 10

\* A JSON schema as the dictionary the function reads: a key that is absent
\* from the dictionary has its has_ flag FALSE.
Schema(type, format, has_enum, enum, has_len, len, has_min, min, has_max, max) ==
    [type |-> type, format |-> format, has_enum |-> has_enum, enum |-> enum,
     has_maxLength |-> has_len, maxLength |-> len,
     has_minimum |-> has_min, minimum |-> min,
     has_maximum |-> has_max, maximum |-> max]

\* bounded input domains of the schemas
Formats == {"", "date-time", "date", "email", "uuid", "byte"}
EnumValues == {"red", "green"}
MaxLengths == {3}
Minimums == {2, 101}
Maximums == {4}

StringSchemas ==
    {Schema("string", f, he, IF he THEN EnumValues ELSE {}, hl, IF hl THEN l ELSE 0,
            FALSE, 0, FALSE, 0) :
        f \in Formats, he \in BOOLEAN, hl \in BOOLEAN, l \in MaxLengths}

NumericSchemas ==
    {Schema(t, "", FALSE, {}, FALSE, 0, hmin, IF hmin THEN mn ELSE 0,
            hmax, IF hmax THEN mx ELSE 0) :
        t \in {"integer", "number"}, hmin \in BOOLEAN, mn \in Minimums,
        hmax \in BOOLEAN, mx \in Maximums}

OtherSchemas ==
    {Schema(t, "", FALSE, {}, FALSE, 0, FALSE, 0, FALSE, 0) :
        t \in {"boolean", "object", "null"}}

SchemaDomain == StringSchemas \cup NumericSchemas \cup OtherSchemas

\* Python values the function returns.  A number is kept as twice its value,
\* so that whole numbers (even) and fractional ones (odd) are told apart.
StrValue(s) == [t |-> "str", v |-> s, twice |-> 0]
NumValue(k) == [t |-> "num", v |-> "", twice |-> k]
BoolValue(b) == [t |-> "bool", v |-> IF b THEN "True" ELSE "False", twice |-> 0]
NoneValue == [t |-> "none", v |-> "", twice |-> 0]
\* a dictionary, written as its literal; "{}" is the empty one
DictValue(s) == [t |-> "dict", v |-> s, twice |-> 0]

\* ''.join(random.choices(string.ascii_letters, k=length)): two of the
\* strings of each length
RandomLetters(length) ==
    IF length = 10 THEN {"abcdefghij", "QRSTUVWXYZ"}
    ELSE IF length = 3 THEN {"abc", "XYZ"}
    ELSE {""}

Min(a, b) == IF a <= b THEN a ELSE b
Max(a, b) == IF a >= b THEN a ELSE b

SchemaMinimum(schema) == IF schema.has_minimum THEN schema.minimum ELSE DefaultMinimum
SchemaMaximum(schema) == IF schema.has_maximum THEN schema.maximum ELSE DefaultMaximum

\* random.randint(a, b) raises ValueError when a > b
RandIntRaises(a, b) == a > b
RandInt(a, b) == {NumValue(2 * n) : n \in a..b}

\* random.uniform(a, b) is a + (b - a) * random(): a value between the two
\* arguments, whichever of them is the larger
RandUniform(a, b) == {NumValue(k) : k \in (2 * Min(a, b))..(2 * Max(a, b))}

\* the branch on "string": the four formats are tested before the enum
StringValues(schema) ==
    IF schema.format = "date-time" THEN {StrValue("2024-05-01T12:00:00")}
    ELSE IF schema.format = "date" THEN {StrValue("2024-05-01")}
    ELSE IF schema.format = "email" THEN {StrValue("test@example.com")}
    ELSE IF schema.format = "uuid" THEN {StrValue("6f1c0c52-uuid4")}
    ELSE IF schema.has_enum THEN {StrValue(e) : e \in schema.enum}
    ELSE {StrValue(x) : x \in RandomLetters(
              Min(DefaultLength,
                  IF schema.has_maxLength THEN schema.maxLength ELSE DefaultLength))}

\* the call raises instead of returning
GenerateValueRaises(schema) ==
    /\ schema.type = "integer"
    /\ RandIntRaises(SchemaMinimum(schema), SchemaMaximum(schema))

\* the values the call can return
GenerateValueFromSchema(schema) ==
    IF schema.type = "string" THEN StringValues(schema)
    ELSE IF schema.type = "integer"
        THEN RandInt(SchemaMinimum(schema), SchemaMaximum(schema))
    ELSE IF schema.type = "number"
        THEN RandUniform(SchemaMinimum(schema), SchemaMaximum(schema))
    ELSE IF schema.type = "boolean" THEN {BoolValue(TRUE), BoolValue(FALSE)}
    \* an object schema of the domain declares no properties: the loop over
    \* them adds nothing to the result
    ELSE IF schema.type = "object" THEN {DictValue("{}")}
    ELSE {NoneValue}

\* one call of the function on a schema of the domain
ValStart(schema) == [pc |-> "called", schema |-> schema, value |-> NoneValue]

InitValue ==
    /\ ExecutorInit(<<>>)
    /\ enum_format = "value"
    /\ gen = GenIdle
    /\ \E schema \in SchemaDomain : val = ValStart(schema)

GenerateValue ==
    /\ val.pc = "called"
    /\ IF GenerateValueRaises(val.schema)
          THEN val' = [val EXCEPT !.pc = "raised"]
          ELSE \E v \in GenerateValueFromSchema(val.schema) :
                  val' = [val EXCEPT !.pc = "returned", !.value = v]
    /\ UNCHANGED <<exec_vars, gen>>

NextValue == GenerateValue

SpecValue == InitValue /\ [][NextValue]_vars

ValueCallEnded == val.pc \in {"returned", "raised"}

\* C18: a string schema that declares an enum, with or without a format,
\* makes _generate_value_from_schema return a member of the enum.
C18_EnumStringYieldsEnumMember ==
    (ValueCallEnded /\ val.schema.type = "string" /\ val.schema.has_enum) =>
        /\ val.pc = "returned"
        /\ val.value.t = "str"
        /\ val.value.v \in val.schema.enum

\* C19: an integer or number schema makes _generate_value_from_schema return
\* a value between the schema's minimum (0 when absent) and its maximum
\* (100 when absent), a whole number for an integer schema, also when only
\* one of the two bounds is given.
C19_NumberWithinBounds ==
    (ValueCallEnded /\ val.schema.type \in {"integer", "number"}) =>
        /\ val.pc = "returned"
        /\ val.value.t = "num"
        /\ 2 * SchemaMinimum(val.schema) <= val.value.twice
        /\ val.value.twice <= 2 * SchemaMaximum(val.schema)
        /\ val.schema.type = "integer" => val.value.twice % 2 = 0

\* ---------------------------------------------------------------------
\* OpenAPIParser._parse_endpoints and generate_test_case_template
\* (src/utils/openapi_parser.py), TestGenerator (src/tests/test_generator.py)
\* ---------------------------------------------------------------------

MaxEndpoints == 2

\* a datetime.date, which yaml.safe_load returns for an unquoted 2024-01-01
DateValue(s) == [t |-> "date", v |-> s, twice |-> 0]

\* Python truthiness of a value ("if not example")
Truthy(value) ==
    /\ value.t # "none"
    /\ ~(value.t = "str" /\ value.v = "")
    /\ ~(value.t = "dict" /\ value.v = "{}")
    /\ ~(value.t = "num" /\ value.twice = 0)
    /\ ~(value.t = "bool" /\ value.v = "False")

\* the schemas of the parameters and of the request bodies of the domain;
\* neither carries an example or a default
ParamSchema == Schema("string", "", FALSE, {}, FALSE, 0, FALSE, 0, FALSE, 0)
BodySchema == Schema("object", "", FALSE, {}, FALSE, 0, FALSE, 0, FALSE, 0)

\* a parameter object of an operation
Param(name, in, required, example) ==
    [name |-> name, in |-> in, required |-> required, example |-> example,
     schema |-> ParamSchema]

ParamLists ==
    { <<>>,
      <<Param("id", "path", TRUE, NoneValue)>>,
      <<Param("id", "path", TRUE, NoneValue), Param("limit", "query", FALSE, NoneValue)>>,
      <<Param("since", "query", FALSE, DateValue("2024-01-01"))>>,
      <<Param("body", "body", TRUE, NoneValue)>> }

\* the keys of an operation's responses, in declaration order
ResponseCodes == {<<>>, <<"200">>, <<"404">>, <<"404", "201">>, <<"2XX">>}

\* an operation without the key requestBody, and a request body object with
\* application/json content
NoBody == [present |-> FALSE, required |-> FALSE, example |-> NoneValue]
Body(required, example) == [present |-> TRUE, required |-> required, example |-> example]
Bodies == {NoBody, Body(TRUE, NoneValue), Body(FALSE, DictValue("{name: Rex}"))}

\* an operation of the document under paths[path][method]
Operation(path, method, has_id, id, parameters, responses, body) ==
    [path |-> path, method |-> method, has_operationId |-> has_id, operationId |-> id,
     parameters |-> parameters, responses |-> responses, requestBody |-> body]

OperationFor(parameters, responses, body) ==
    IF body.present
        THEN Operation("/pets", "post", TRUE, "addPet", parameters, responses, body)
        ELSE Operation("/pets", "get", FALSE, "", parameters, responses, body)

Operations ==
    {OperationFor(ps, <<"200">>, b) : ps \in ParamLists, b \in Bodies}
    \cup {OperationFor(<<>>, rs, NoBody) : rs \in ResponseCodes}

\* the endpoint dictionary _parse_endpoints appends for an operation: the
\* request body is stored under the key "request_body", and the dictionary
\* has no key "requestBody"
ParseEndpoint(op) ==
    [path |-> op.path,
     method |-> Upper(op.method),
     operation_id |-> IF op.has_operationId THEN op.operationId
                      ELSE op.method \o "_" \o op.path,
     parameters |-> op.parameters,
     responses |-> op.responses,
     request_body |-> op.requestBody,
     has_requestBody |-> FALSE,
     requestBody |-> NoBody]

\* an endpoint dictionary that keeps the operation's own key "requestBody",
\* the key generate_test_case_template, _generate_tests_for_endpoint and
\* _get_required_parameters read
OperationEndpoint(op) ==
    [ParseEndpoint(op) EXCEPT !.has_requestBody = TRUE, !.requestBody = op.requestBody]

ParsedEndpoints == {ParseEndpoint(op) : op \in Operations}

KeyedEndpoints ==
    {OperationEndpoint(OperationFor(ps, <<"200">>, b)) :
        ps \in {<<>>, <<Param("id", "path", TRUE, NoneValue)>>}, b \in Bodies \ {NoBody}}

EndpointDomain == ParsedEndpoints \cup KeyedEndpoints

EndpointLists ==
    UNION {[1..n -> EndpointDomain] : n \in 0..MaxEndpoints}

\* the first response code that starts with "2", else "200"
StartsWith2(code) == code \in {"200", "201", "204", "2XX"}

RECURSIVE FirstSuccess(_)
FirstSuccess(codes) ==
    IF codes = <<>> THEN "200"
    ELSE IF StartsWith2(Head(codes)) THEN Head(codes)
    ELSE FirstSuccess(Tail(codes))

SuccessCode(endpoint) == FirstSuccess(endpoint.responses)

\* int(success_code) raises ValueError for a code that is no decimal number
IntRaises(code) == code \notin {"200", "201", "204", "404"}
IntOf(code) ==
    CASE code = "200" -> 200
      [] code = "201" -> 201
      [] code = "204" -> 204
      [] code = "404" -> 404

\* the four locations the template keeps parameters for
Locations == {"path", "query", "header", "cookie"}

InLocations(param) == param.in \in Locations
LocatedParams(endpoint) == SelectSeq(endpoint.parameters, InLocations)

\* "example" of a parameter: its own, else the schema's example or default,
\* which the schemas of the domain do not have
ExtractExample(param) == IF Truthy(param.example) THEN param.example ELSE NoneValue

\* The info dictionaries {required, example, schema} are objects on the heap:
\* gen.cells holds them, and the params maps of the template and of the test
\* cases hold references (indexes into gen.cells) to them.
NewCells(endpoint) ==
    [k \in 1..Len(LocatedParams(endpoint)) |->
        [required |-> LocatedParams(endpoint)[k].required,
         example |-> ExtractExample(LocatedParams(endpoint)[k]),
         schema |-> LocatedParams(endpoint)[k].schema]]

NoRequestBody == [present |-> FALSE, required |-> FALSE, example |-> NoneValue]

\* template["request_body"]: built only when the endpoint has "requestBody"
TemplateRequestBody(endpoint) ==
    IF endpoint.has_requestBody
        THEN [present |-> TRUE, required |-> endpoint.requestBody.required,
              example |-> IF Truthy(endpoint.requestBody.example)
                          THEN endpoint.requestBody.example ELSE NoneValue]
        ELSE NoRequestBody

GenerateTemplateRaises(endpoint) == IntRaises(SuccessCode(endpoint))

\* the template; base is the number of info dictionaries allocated before
GenerateTestCaseTemplate(endpoint, base) ==
    [name |-> "Test " \o endpoint.operation_id,
     endpoint |-> endpoint.path,
     method |-> endpoint.method,
     operation_id |-> endpoint.operation_id,
     expected_status_code |-> IntOf(SuccessCode(endpoint)),
     params |-> [k \in 1..Len(LocatedParams(endpoint)) |->
                    [name |-> LocatedParams(endpoint)[k].name,
                     in |-> LocatedParams(endpoint)[k].in,
                     cell |-> base + k]],
     request_body |-> TemplateRequestBody(endpoint)]

NoTemplate ==
    [name |-> "", endpoint |-> "", method |-> "", operation_id |-> "",
     expected_status_code |-> 0, params |-> <<>>, request_body |-> NoRequestBody]

\* no skip_param
NoSkip == [name |-> "", in |-> ""]

RECURSIVE RequiredOf(_)
RequiredOf(parameters) ==
    IF parameters = <<>> THEN <<>>
    ELSE (IF Head(parameters).required
            THEN <<[name |-> Head(parameters).name, in |-> Head(parameters).in]>>
            ELSE <<>>) \o RequiredOf(Tail(parameters))

GetRequiredParameters(endpoint) ==
    RequiredOf(endpoint.parameters)
    \o (IF endpoint.has_requestBody /\ endpoint.requestBody.required
          THEN <<[name |-> "requestBody", in |-> "body"]>>
          ELSE <<>>)

\* the exported file before export_test_cases has written it
NoFile == [complete |-> FALSE, items |-> <<>>]

\* the generator after load_spec, over the endpoint list eps
GenLoaded(eps) ==
    [pc |-> "loaded", endpoints |-> eps, idx |-> 1, template |-> NoTemplate,
     cells |-> <<>>, test_cases |-> <<>>, synth |-> {},
     export_ok |-> FALSE, file |-> NoFile, imported |-> <<>>]

InitGen ==
    /\ ExecutorInit(<<>>)
    /\ enum_format = "value"
    /\ \E eps \in EndpointLists : gen = GenLoaded(eps)
    /\ val = ValIdle

\* where generate_test_cases goes after the endpoint at index i
AfterEndpoint(g, i) == IF i < Len(g.endpoints) THEN "template" ELSE "generated"

\* generate_test_cases, line 53, and the entry of its loop
GenerateTestCases ==
    /\ gen.pc = "loaded"
    /\ gen' = [gen EXCEPT !.pc = AfterEndpoint(gen, 0), !.idx = 1, !.test_cases = <<>>]
    /\ UNCHANGED <<exec_vars, val>>

\* _generate_tests_for_endpoint, lines 73-79: the base template, or the
\* exception of generate_test_case_template, which ends generate_test_cases
BuildTemplate ==
    /\ gen.pc = "template"
    /\ LET endpoint == gen.endpoints[gen.idx] IN
         IF GenerateTemplateRaises(endpoint)
            THEN gen' = [gen EXCEPT !.pc = "raised"]
            ELSE gen' = [gen EXCEPT
                           !.pc = "happy",
                           !.template = GenerateTestCaseTemplate(endpoint, Len(gen.cells)),
                           !.cells = gen.cells \o NewCells(endpoint)]
    /\ UNCHANGED <<exec_vars, val>>

\* the entries of the template's params maps without the skipped parameter
\* (shallow copies of the four maps: the entries keep their references)
CopiedParams(template, skip) ==
    LET Kept(e) == ~(skip # NoSkip /\ e.in \in Locations
                     /\ e.in = skip.in /\ e.name = skip.name)
    IN SelectSeq(template.params, Kept)

\* the info dictionaries a call of _populate_test_parameters writes into:
\* those of its params maps whose example is None
CellsToFill(g, params) ==
    {params[k].cell : k \in {j \in 1..Len(params) : g.cells[params[j].cell].example = NoneValue}}

\* the values the request-body branch of _populate_test_parameters can yield
RequestBodyValues(template, has_override, override) ==
    IF ~template.request_body.present THEN {NoneValue}
    ELSE IF has_override THEN {override}
    ELSE IF Truthy(template.request_body.example) THEN {template.request_body.example}
    ELSE GenerateValueFromSchema(BodySchema)

\* A variant of the endpoint at gen.idx: base_template.copy() with its own
\* name and expected status, then _populate_test_parameters with the values
\* fill (for the info dictionaries without example) and body.
\* ep and variant are bookkeeping: the index of the endpoint and the suffix
\* of the name.
Variant(g, variant, status, skip, has_override, fill, body) ==
    LET params == CopiedParams(g.template, skip)
        tc == [ep |-> g.idx,
               variant |-> variant,
               name |-> g.template.operation_id \o "_" \o variant,
               endpoint |-> g.template.endpoint,
               method |-> g.template.method,
               operation_id |-> g.template.operation_id,
               expected_status_code |-> status,
               params |-> params,
               request_body |-> g.template.request_body,
               has_omitted_parameter |-> skip # NoSkip,
               omitted_parameter |-> skip,
               has_request_body_value |-> body # NoneValue,
               request_body_value |-> body]
    IN [g EXCEPT
          !.cells = [c \in DOMAIN g.cells |->
                        IF c \in CellsToFill(g, params)
                           THEN [g.cells[c] EXCEPT !.example = fill[c]]
                           ELSE g.cells[c]],
          !.synth = g.synth \cup {[ep |-> g.idx, variant |-> variant, cell |-> c] :
                                     c \in CellsToFill(g, params)},
          !.test_cases = Append(g.test_cases, tc)]

\* the choices of values for one call of _populate_test_parameters
Fills(g, skip) ==
    LET need == CellsToFill(g, CopiedParams(g.template, skip))
    IN {f \in [need -> UNION {GenerateValueFromSchema(g.cells[c].schema) : c \in need}] :
           \A c \in need : f[c] \in GenerateValueFromSchema(g.cells[c].schema)}

\* lines 82-89
HappyPath ==
    /\ gen.pc = "happy"
    /\ \E fill \in Fills(gen, NoSkip) :
       \E body \in RequestBodyValues(gen.template, FALSE, NoneValue) :
          gen' = [Variant(gen, "happy_path", gen.template.expected_status_code,
                          NoSkip, FALSE, fill, body)
                  EXCEPT !.pc = "missing"]
    /\ UNCHANGED <<exec_vars, val>>

\* lines 91-106: random.choice over the required items
MissingParams ==
    /\ gen.pc = "missing"
    /\ LET required == GetRequiredParameters(gen.endpoints[gen.idx]) IN
         IF required # <<>>
            THEN \E k \in 1..Len(required) :
                 \E fill \in Fills(gen, required[k]) :
                 \E body \in RequestBodyValues(gen.template, FALSE, NoneValue) :
                    gen' = [Variant(gen, "missing_params", 400, required[k], FALSE, fill, body)
                            EXCEPT !.pc = "invalid"]
            ELSE gen' = [gen EXCEPT !.pc = "invalid"]
    /\ UNCHANGED <<exec_vars, val>>

\* lines 108-126, and the next round of the loop of generate_test_cases
InvalidBody ==
    /\ gen.pc = "invalid"
    /\ IF gen.endpoints[gen.idx].has_requestBody
          THEN \E fill \in Fills(gen, NoSkip) :
               \E body \in RequestBodyValues(gen.template, TRUE, DictValue("{}")) :
                  gen' = [Variant(gen, "invalid_body", 400, NoSkip, TRUE, fill, body)
                          EXCEPT !.pc = AfterEndpoint(gen, gen.idx), !.idx = gen.idx + 1]
          ELSE gen' = [gen EXCEPT !.pc = AfterEndpoint(gen, gen.idx), !.idx = gen.idx + 1]
    /\ UNCHANGED <<exec_vars, val>>

\* the test case as the Python dictionary it is, its params entries with the
\* info dictionaries they refer to.  (schema is left out: the schemas of the
\* domain hold strings only.)
TestCaseDict(g, tc) ==
    [name |-> tc.name,
     endpoint |-> tc.endpoint,
     method |-> tc.method,
     operation_id |-> tc.operation_id,
     expected_status_code |-> tc.expected_status_code,
     params |-> [k \in 1..Len(tc.params) |->
                    [name |-> tc.params[k].name,
                     in |-> tc.params[k].in,
                     required |-> g.cells[tc.params[k].cell].required,
                     example |-> g.cells[tc.params[k].cell].example]],
     request_body |-> tc.request_body,
     has_omitted_parameter |-> tc.has_omitted_parameter,
     omitted_parameter |-> tc.omitted_parameter,
     has_request_body_value |-> tc.has_request_body_value,
     request_body_value |-> tc.request_body_value]

TestCaseDicts(g) == [k \in 1..Len(g.test_cases) |-> TestCaseDict(g, g.test_cases[k])]

\* json.dump raises TypeError for a value of a type it has no encoding for
JsonEncodable(value) == value.t \in {"none", "str", "num", "bool", "dict"}

\* the JSON text of a value, and the value json.load builds from the text
JsonEncode(value) ==
    [json |-> CASE value.t = "none" -> "null"
                [] value.t = "str" -> "string"
                [] value.t = "num" -> "number"
                [] value.t = "bool" -> "boolean"
                [] value.t = "dict" -> "object",
     text |-> value.v, twice |-> value.twice]

JsonDecode(j) ==
    [t |-> CASE j.json = "null" -> "none"
             [] j.json = "string" -> "str"
             [] j.json = "number" -> "num"
             [] j.json = "boolean" -> "bool"
             [] j.json = "object" -> "dict",
     v |-> j.text, twice |-> j.twice]

\* the values of a test-case dictionary that come from the document or from
\* _generate_value_from_schema
ValuesOf(d) ==
    {d.params[k].example : k \in 1..Len(d.params)}
    \cup {d.request_body.example, d.request_body_value}

DumpRaises(dicts) ==
    \E k \in 1..Len(dicts) : \E value \in ValuesOf(dicts[k]) : ~JsonEncodable(value)

\* the JSON object of a test case: its strings, numbers and booleans keep
\* their place, its values are encoded
DumpTestCase(d) ==
    [d EXCEPT
        !.params = [k \in 1..Len(d.params) |->
                       [d.params[k] EXCEPT !.example = JsonEncode(d.params[k].example)]],
        !.request_body = [d.request_body EXCEPT !.example = JsonEncode(d.request_body.example)],
        !.request_body_value = JsonEncode(d.request_body_value)]

LoadTestCase(o) ==
    [o EXCEPT
        !.params = [k \in 1..Len(o.params) |->
                       [o.params[k] EXCEPT !.example = JsonDecode(o.params[k].example)]],
        !.request_body = [o.request_body EXCEPT !.example = JsonDecode(o.request_body.example)],
        !.request_body_value = JsonDecode(o.request_body_value)]

\* export_test_cases: json.dump of self.test_cases; a TypeError leaves a
\* truncated file behind and makes the method return False
ExportTestCases ==
    /\ gen.pc = "generated"
    /\ LET dicts == TestCaseDicts(gen) IN
         IF DumpRaises(dicts)
            THEN gen' = [gen EXCEPT !.pc = "exported", !.export_ok = FALSE,
                                    !.file = [complete |-> FALSE, items |-> <<>>]]
            ELSE gen' = [gen EXCEPT !.pc = "exported", !.export_ok = TRUE,
                                    !.file = [complete |-> TRUE,
                                              items |-> [k \in 1..Len(dicts) |->
                                                            DumpTestCase(dicts[k])]]]
    /\ UNCHANGED <<exec_vars, val>>

\* run_tests with --tests: json.load of the file, which raises on a
\* truncated one
LoadTestCases ==
    /\ gen.pc = "exported"
    /\ IF gen.file.complete
          THEN gen' = [gen EXCEPT !.pc = "imported",
                                  !.imported = [k \in 1..Len(gen.file.items) |->
                                                   LoadTestCase(gen.file.items[k])]]
          ELSE gen' = [gen EXCEPT !.pc = "load_failed"]
    /\ UNCHANGED <<exec_vars, val>>

NextGen ==
    \/ GenerateTestCases
    \/ BuildTemplate
    \/ HappyPath
    \/ MissingParams
    \/ InvalidBody
    \/ ExportTestCases
    \/ LoadTestCases

SpecGen == InitGen /\ [][NextGen]_vars

\* generate_test_cases has returned its list
Generated == gen.pc \in {"generated", "exported", "imported", "load_failed"}
\* generate_test_cases has ended, with its list or with an exception
GenerationEnded == Generated \/ gen.pc = "raised"

\* the test cases of the given variant emitted for the endpoint at index i
TestsFor(i, variant) ==
    {k \in 1..Len(gen.test_cases) :
        gen.test_cases[k].ep = i /\ gen.test_cases[k].variant = variant}

\* the endpoint came out of _parse_endpoints
ExtractedByParser(endpoint) == ~endpoint.has_requestBody

\* C13: for every endpoint list generate_test_cases emits, for each endpoint,
\* exactly one happy-path test case, named <operation_id>_happy_path and
\* expecting the template's success code.
C13_OneHappyPathPerEndpoint ==
    GenerationEnded =>
        /\ gen.pc # "raised"
        /\ \A i \in 1..Len(gen.endpoints) :
              /\ Cardinality(TestsFor(i, "happy_path")) = 1
              /\ \A k \in TestsFor(i, "happy_path") :
                    /\ gen.test_cases[k].name = gen.endpoints[i].operation_id \o "_happy_path"
                    /\ gen.test_cases[k].expected_status_code
                          = IntOf(SuccessCode(gen.endpoints[i]))

\* C14: for every endpoint extracted by the parser, generate_test_cases emits
\* an invalid-body test case (expected status 400, request body {}) when
\* the operation declares a request body, and none when it declares none.
C14_InvalidBodyForDeclaredBody ==
    Generated =>
        \A i \in 1..Len(gen.endpoints) :
            ExtractedByParser(gen.endpoints[i]) =>
                IF gen.endpoints[i].request_body.present
                   THEN \E k \in TestsFor(i, "invalid_body") :
                           /\ gen.test_cases[k].expected_status_code = 400
                           /\ gen.test_cases[k].has_request_body_value
                           /\ gen.test_cases[k].request_body_value = DictValue("{}")
                   ELSE TestsFor(i, "invalid_body") = {}

\* the required items an operation declares: its required parameters and
\* its required request body
DeclaredRequired(endpoint) ==
    {[name |-> endpoint.parameters[k].name, in |-> endpoint.parameters[k].in] :
        k \in {j \in 1..Len(endpoint.parameters) : endpoint.parameters[j].required}}
    \cup (IF endpoint.request_body.present /\ endpoint.request_body.required
            THEN {[name |-> "requestBody", in |-> "body"]} ELSE {})

\* C15: for every endpoint extracted by the parser, a missing-required-
\* parameter test case is emitted if and only if the operation declares a
\* required parameter or a required request body, and the omitted item is
\* one of the declared required items.
C15_MissingParamsIffRequired ==
    Generated =>
        \A i \in 1..Len(gen.endpoints) :
            ExtractedByParser(gen.endpoints[i]) =>
                /\ (TestsFor(i, "missing_params") # {})
                      <=> (DeclaredRequired(gen.endpoints[i]) # {})
                /\ \A k \in TestsFor(i, "missing_params") :
                      gen.test_cases[k].omitted_parameter
                          \in DeclaredRequired(gen.endpoints[i])

\* the omitted item is the request body
OmitsBody(tc) == tc.omitted_parameter = [name |-> "requestBody", in |-> "body"]

RECURSIVE TemplateCells(_, _)
TemplateCells(eps, n) ==
    IF n = 0 THEN <<>> ELSE TemplateCells(eps, n - 1) \o NewCells(eps[n])

\* the info dictionaries a test case refers to
CellsOf(tc) == {tc.params[j].cell : j \in 1..Len(tc.params)}

\* C17: the test cases of an endpoint are independent: populating a variant
\* writes neither into the template nor into another variant's parameter
\* entries (no info dictionary is shared), and every variant synthesizes its
\* own value for each of its parameters that has no example.
C17_VariantsAreIndependent ==
    LET built == TemplateCells(gen.endpoints, Len(gen.endpoints)) IN
    /\ \A c \in DOMAIN gen.cells : gen.cells[c].example = built[c].example
    /\ \A k1, k2 \in 1..Len(gen.test_cases) :
          k1 # k2 => CellsOf(gen.test_cases[k1]) \cap CellsOf(gen.test_cases[k2]) = {}
    /\ \A k \in 1..Len(gen.test_cases) :
          \A c \in CellsOf(gen.test_cases[k]) :
              built[c].example = NoneValue =>
                  [ep |-> gen.test_cases[k].ep,
                   variant |-> gen.test_cases[k].variant,
                   cell |-> c] \in gen.synth

\* C20: re-importing the file export_test_cases wrote yields a list equal to
\* the generated one, for every list generate_test_cases can produce.
C20_ExportImportRoundTrip ==
    gen.pc \in {"imported", "load_failed"} =>
        /\ gen.export_ok
        /\ gen.pc = "imported"
        /\ gen.imported = TestCaseDicts(gen)

\* generate_test_case_template has returned the template of the endpoint at
\* gen.idx
TemplateReturned == gen.pc = "happy"

\* C27: generate_test_case_template returns a template for every declared
\* response-code key, range keys such as 2XX and maps without a 2xx code
\* included, and the template's expected_status_code is the first declared
\* code that starts with "2", 200 when none is declared.
C27_TemplateForEveryResponseKey ==
    /\ gen.pc # "raised"
    /\ TemplateReturned =>
          gen.template.expected_status_code
              = IntOf(FirstSuccess(gen.endpoints[gen.idx].responses))

\* ---------------------------------------------------------------------
\* The persistence API as a server of its own (src/api/routes/results.py)
\* with the request models of src/api/models/test_result.py
\* ---------------------------------------------------------------------

MaxRequests == 3

\* the fields of TestResult in declaration order, the order in which
\* pydantic validates them
FieldOrder ==
    <<"id", "test_id", "endpoint", "method", "status", "status_code",
      "expected_status_code", "response_time_ms", "request_timestamp">>

FieldIndex(field) == CHOOSE k \in 1..Len(FieldOrder) : FieldOrder[k] = field

\* the keys of "values" when the validator of a field runs: the fields
\* declared before it
ValuesBefore(field) == {FieldOrder[k] : k \in 1..(FieldIndex(field) - 1)}

\* validate_status, the validator of the field status
ValidateStatusRaises(p) ==
    /\ "status_code" \in ValuesBefore("status")
    /\ "expected_status_code" \in ValuesBefore("status")
    /\ p.status_code # p.expected_status_code
    /\ p.status = PASSED

\* TestResult(**payload) returns an object: the enum fields hold members
\* and no validator raises
TestResultAccepted(p) ==
    /\ IsEndpointMethod(p.method)
    /\ p.status \in TestStatus
    /\ ~ValidateStatusRaises(p)

\* the body of a POST /api/results
ResultPayload(m, st, code, expected) ==
    [id |-> "", test_id |-> "get-users-01", endpoint |-> "/api/users", method |-> m,
     status |-> st, status_code |-> code, expected_status_code |-> expected,
     response_time_ms |-> 45, validation_errors |-> <<>>]

ResultPayloads ==
    {ResultPayload("GET", st, code, 200) : st \in TestStatus, code \in {0} \cup StatusCodes}
        \cup {ResultPayload(BadMethod, PASSED, 200, 200)}

\* the run ids and the endpoint totals of the posted runs
RunIds == {"run-1", "run-2"}
UnknownRunId == "run-9"
EndpointTotals == {0, 2}

\* the body of a POST /api/results/run as create_test_run stores it
PostedRun(run_id, total_endpoints_) ==
    [StoredRun([NoRun EXCEPT !.total_tests = 1, !.total_endpoints = total_endpoints_])
        EXCEPT !.run_id = run_id]

\* the response to a request
Responded(a, op, status) ==
    [a EXCEPT !.op = op, !.status = status, !.requests = @ + 1]

InitApi ==
    /\ ExecutorInit(<<>>)
    /\ enum_format = "value"
    /\ gen = GenIdle
    /\ val = ValIdle

\* POST /api/results: FastAPI builds the TestResult from the body and answers
\* 422 if that raises; create_test_result gives it an id and stores it
CreateTestResult ==
    /\ api.requests < MaxRequests
    /\ \E p \in ResultPayloads :
          IF TestResultAccepted(p)
             THEN api' = StoreResult(api,
                            [p EXCEPT !.id = GenerateId(Len(api.test_results_db) + 1)])
             ELSE api' = Responded(api, "create_test_result", "422")
    /\ UNCHANGED <<test_cases, results, total_endpoints, covered_endpoints, test_run, pc,
                   calls, tpc, tresult, texc, tresp, sent, enum_format, test_runs_db,
                   put_status, clock, gen, val>>

\* POST /api/results/run
CreateTestRun ==
    /\ api.requests < MaxRequests
    /\ \E run_id \in RunIds, total \in EndpointTotals :
          test_runs_db' = Append(test_runs_db, PostedRun(run_id, total))
    /\ api' = Responded(api, "create_test_run", "201")
    /\ UNCHANGED <<test_cases, results, total_endpoints, covered_endpoints, test_run, pc,
                   calls, tpc, tresult, texc, tresp, sent, enum_format,
                   put_status, clock, gen, val>>

\* PUT /api/results/run/{run_id}/complete
CompleteRun ==
    /\ api.requests < MaxRequests
    /\ \E run_id \in RunIds \cup {UnknownRunId} :
          /\ test_runs_db' = CompleteTestRun(test_runs_db, run_id).db
          /\ api' = Responded(api, "complete_test_run",
                              CompleteTestRun(test_runs_db, run_id).status)
    /\ UNCHANGED <<test_cases, results, total_endpoints, covered_endpoints, test_run, pc,
                   calls, tpc, tresult, texc, tresp, sent, enum_format,
                   put_status, clock, gen, val>>

NextApi ==
    \/ CreateTestResult
    \/ CreateTestRun
    \/ CompleteRun

SpecApi == InitApi /\ [][NextApi]_vars

\* C25: every TestResult the constructor accepts, and so every result stored
\* by POST /api/results, has equal status codes when its status is PASSED.
C25_PassedImpliesCodesMatch ==
    \A k \in 1..Len(api.test_results_db) :
        api.test_results_db[k].status = PASSED =>
            api.test_results_db[k].status_code
                = api.test_results_db[k].expected_status_code

\* a request to complete a run has just been answered with an error status
FailedCompletion ==
    /\ api'.requests = api.requests + 1
    /\ api'.op = "complete_test_run"
    /\ api'.status \in {"404", "500"}

\* C28: a complete_test_run request answered 404 or 500 leaves every stored
\* run unchanged.
C28_FailedCompletionChangesNothing ==
    [][FailedCompletion => test_runs_db' = test_runs_db]_vars

\* ---------------------------------------------------------------------
\* OpenAPIParser.load_spec and _parse_endpoints (src/utils/openapi_parser.py)
\* and TestGenerator.load_spec (src/tests/test_generator.py): one parser
\* and one generator, loaded again and again while the document behind
\* spec_path changes
\* ---------------------------------------------------------------------

MaxLoads == 2

\* the keys of a path item that _parse_endpoints takes for HTTP methods,
\* with the shared parameters block among them
HttpMethodKeysWithParameters ==
    {"get", "post", "put", "delete", "patch", "head", "options", "parameters"}

\* the keys of a path item that _parse_endpoints takes for HTTP methods
HttpMethodKeys ==
    {"get", "post", "put", "delete", "patch", "head", "options"}

\* an entry of a path item: the key and the value under it.  For a method
\* key the value is the operation; the value under another key (a
\* parameter list, a summary string) is never read.
Item(path, key, parameters) ==
    [key |-> key, operation |-> Operation(path, key, FALSE, "", parameters, <<"200">>, NoBody)]

\* a path of the document with the entries of its path item, in document
\* order
PathItem(path, keys, parameters) ==
    [path |-> path, items |-> [k \in 1..Len(keys) |-> Item(path, keys[k], parameters)]]

\* a document as yaml.safe_load or json.load returns it
Document(has_basePath, basePath, paths) ==
    [has_basePath |-> has_basePath, basePath |-> basePath, paths |-> paths]

\* a Swagger 2.0 document with a basePath and a shared parameters block
PetsV2 ==
    Document(TRUE, "/v1",
        <<PathItem("/pets", <<"parameters", "get", "post">>, <<>>),
          PathItem("/pets/{id}", <<"get", "delete">>,
                   <<Param("id", "path", TRUE, NoneValue)>>)>>)

\* OpenAPI 3 documents: no basePath; summary and trace are keys of a path
\* item that are not in the list of line 118
UsersV3 ==
    Document(FALSE, "",
        <<PathItem("/users", <<"summary", "put", "trace">>, <<>>),
          PathItem("/health", <<"head", "options", "patch">>, <<>>)>>)

NoPathsV3 == Document(FALSE, "", <<>>)

\* a document that parses but fails validate(): it has no info object
NoInfo == Document(FALSE, "", <<PathItem("/orders", <<"get">>, <<>>)>>)

\* self.spec_data after __init__
NoDocument == Document(FALSE, "", <<>>)

ValidDocuments == {PetsV2, UsersV3, NoPathsV3}

\* what a load finds behind spec_path: nothing (no file, request failed),
\* text that yaml/json cannot parse, a document that fails validation, or
\* a valid document
Source(kind, doc) == [kind |-> kind, doc |-> doc]

Sources ==
    {Source("unreachable", NoDocument), Source("malformed", NoDocument),
     Source("invalid", NoInfo)}
        \cup {Source("valid", doc) : doc \in ValidDocuments}

\* spec_data.get("basePath", "")
BasePath(doc) == IF doc.has_basePath THEN doc.basePath ELSE ""

\* the inner loop of _parse_endpoints, lines 116-133
RECURSIVE ParseItems(_, _, _)
ParseItems(base_path, path, items) ==
    IF items = <<>> THEN <<>>
    ELSE (IF Head(items).key \in HttpMethodKeys
            THEN <<[ParseEndpoint(Head(items).operation) EXCEPT !.path = base_path \o path]>>
            ELSE <<>>)
         \o ParseItems(base_path, path, Tail(items))

\* the outer loop, lines 107-113
RECURSIVE ParsePaths(_, _)
ParsePaths(base_path, paths) ==
    IF paths = <<>> THEN <<>>
    ELSE (IF Head(paths).path = "parameters" THEN <<>>
          ELSE ParseItems(base_path, Head(paths).path, Head(paths).items))
         \o ParsePaths(base_path, Tail(paths))

\* self.endpoints after _parse_endpoints
ParseEndpoints(doc) == ParsePaths(BasePath(doc), doc.paths)

\* _load_from_file and _load_from_url: spec_data is assigned once the text
\* has been parsed, endpoints only by _parse_endpoints, which runs after
\* validate() has returned; every exception ends the load with False
ParserLoad(parser, source) ==
    [spec_data |-> IF source.kind \in {"invalid", "valid"} THEN source.doc
                   ELSE parser.spec_data,
     endpoints |-> IF source.kind = "valid" THEN ParseEndpoints(source.doc)
                   ELSE parser.endpoints,
     result |-> source.kind = "valid"]

\* OpenAPIParser.__init__
ParserConstructed == [spec_data |-> NoDocument, endpoints |-> <<>>, result |-> FALSE]

\* TestGenerator.__init__: no endpoints, no test cases, a fresh parser; no
\* load so far
GenConstructed ==
    GenLoaded(<<>>) @@ [parser |-> ParserConstructed, loads |-> 0, source |-> "none"]

InitLoad ==
    /\ ExecutorInit(<<>>)
    /\ enum_format = "value"
    /\ gen = GenConstructed
    /\ val = ValIdle

\* TestGenerator.load_spec, called while generate_test_cases is not running
\* (gen.pc = "loaded" is the generator before a call of generate_test_cases);
\* gen.parser.result is what the load returned
LoadSpec ==
    /\ gen.loads < MaxLoads
    /\ gen.pc \in {"loaded", "generated", "raised"}
    /\ \E source \in Sources :
          LET parser == ParserLoad(gen.parser, source) IN
          gen' = [gen EXCEPT
                    !.pc = "loaded",
                    !.parser = parser,
                    !.endpoints = IF parser.result THEN parser.endpoints ELSE @,
                    !.loads = @ + 1,
                    !.source = source.kind]
    /\ UNCHANGED <<exec_vars, val>>

NextLoad ==
    \/ LoadSpec
    \/ GenerateTestCases
    \/ BuildTemplate
    \/ HappyPath
    \/ MissingParams
    \/ InvalidBody

SpecLoad == InitLoad /\ [][NextLoad]_vars

\* the last load_spec found no document it could load
LoadFailed == gen.source \in {"unreachable", "malformed", "invalid"}

\* C21: a load that fails reports failure and exposes no endpoints: the
\* parser's and the generator's endpoint lists are empty after it and
\* generate_test_cases yields no test case, also when an earlier load on the
\* same object had succeeded.
C21_FailedLoadExposesNoEndpoints ==
    LoadFailed =>
        /\ ~gen.parser.result
        /\ gen.parser.endpoints = <<>>
        /\ gen.endpoints = <<>>
        /\ gen.pc = "generated" => gen.test_cases = <<>>

\* the (path, key) pairs of the document whose key is an HTTP method of the
\* list get, post, put, delete, patch, head, options
MethodPairs(doc) ==
    UNION {{<<i, j>> : j \in {n \in 1..Len(doc.paths[i].items) :
                                doc.paths[i].items[n].key
                                    \in {"get", "post", "put", "delete", "patch",
                                         "head", "options"}}} :
             i \in 1..Len(doc.paths)}

\* the descriptors with the given path and method
Descriptors(endpoints, path, method) ==
    {k \in 1..Len(endpoints) : endpoints[k].path = path /\ endpoints[k].method = method}

\* C26: after a successful load the parser holds exactly one descriptor for
\* each (path, key) pair of the document whose key is one of get, post, put,
\* delete, patch, head, options, and none for any other key; its path is
\* the basePath (empty when absent) followed by the path key, its method
\* the key in upper case.
C26_OneDescriptorPerMethodKey ==
    gen.parser.result =>
        LET doc == gen.parser.spec_data
            base == IF doc.has_basePath THEN doc.basePath ELSE ""
        IN  /\ Len(gen.parser.endpoints) = Cardinality(MethodPairs(doc))
            /\ \A pair \in MethodPairs(doc) :
                  Cardinality(Descriptors(gen.parser.endpoints,
                                  base \o doc.paths[pair[1]].path,
                                  Upper(doc.paths[pair[1]].items[pair[2]].key))) = 1

\* a Swagger 2.0 document with a basePath, a parameters block and two paths
\* has been loaded
C26_Witness ==
    /\ gen.parser.result
    /\ gen.parser.spec_data = PetsV2
    /\ Len(gen.parser.endpoints) = 4
    /\ gen.parser.endpoints[1].path = "/v1/pets"
    /\ gen.parser.endpoints[1].method = "GET"
    /\ gen.parser.endpoints[4].path = "/v1/pets/{id}"
    /\ gen.parser.endpoints[4].method = "DELETE"

\* ---------------------------------------------------------------------
\* TestGenerator._generate_value_from_schema on nested schemas
\* (src/tests/test_generator.py, lines 257-276): the calls of the function
\* on the items of an array and on the properties of an object
\* ---------------------------------------------------------------------

\* the depth of the call stack at which the interpreter raises
\* RecursionError, scaled down
RecursionLimit == 3

\* schema.get("minItems", 1) and min(5, schema.get("maxItems", 5))
DefaultMinItems == 1
MaxItemsCap == 5

\* A schema dictionary of the table.  items and the schemas of the
\* properties are references to dictionaries of the table, so that a
\* dictionary can contain itself (a YAML alias to an enclosing anchor).
LeafNode(schema) ==
    [type |-> schema.type, leaf |-> schema, items |-> 0,
     has_minItems |-> FALSE, minItems |-> 0, has_maxItems |-> FALSE, maxItems |-> 0,
     properties |-> <<>>, required |-> {}]

ArrayNode(items, has_min, min, has_max, max) ==
    [type |-> "array", leaf |-> ParamSchema, items |-> items,
     has_minItems |-> has_min, minItems |-> min, has_maxItems |-> has_max, maxItems |-> max,
     properties |-> <<>>, required |-> {}]

ObjectNode(properties, required) ==
    [type |-> "object", leaf |-> BodySchema, items |-> 0,
     has_minItems |-> FALSE, minItems |-> 0, has_maxItems |-> FALSE, maxItems |-> 0,
     properties |-> properties, required |-> required]

Property(name, node) == [name |-> name, node |-> node]

EmailSchema == Schema("string", "email", FALSE, {}, FALSE, 0, FALSE, 0, FALSE, 0)
ShortSchema == Schema("string", "", FALSE, {}, TRUE, 3, FALSE, 0, FALSE, 0)

\* the schemas of the domain, by reference
SchemaTable ==
    <<LeafNode(EmailSchema),                                \* 1
      LeafNode(ShortSchema),                                \* 2
      ArrayNode(1, FALSE, 0, FALSE, 0),                     \* 3: one to five e-mails
      ArrayNode(2, TRUE, 0, TRUE, 2),                       \* 4: up to two strings
      ArrayNode(4, FALSE, 0, TRUE, 2),                      \* 5: an array of arrays
      ArrayNode(1, TRUE, 6, FALSE, 0),                      \* 6: at least six e-mails
      ArrayNode(7, FALSE, 0, TRUE, 2),                      \* 7: an array of itself
      ObjectNode(<<Property("name", 2), Property("tags", 4)>>, {"name"}),    \* 8
      ObjectNode(<<Property("name", 1), Property("parent", 9)>>,
                 {"name", "parent"})>>                      \* 9: an object holding itself

SchemaRefs == DOMAIN SchemaTable

MinItems(node) == IF node.has_minItems THEN node.minItems ELSE DefaultMinItems
MaxItems(node) == Min(MaxItemsCap, IF node.has_maxItems THEN node.maxItems ELSE MaxItemsCap)

\* the values of the nested types: a list, and a dictionary as the sequence
\* of its entries
ListValue(elems) == [t |-> "list", items |-> elems]
ObjectValue(entries) == [t |-> "dict", items |-> entries]

\* a call of the function on the schema with this reference, before it has
\* read the schema
Frame(ref) == [node |-> ref, entered |-> FALSE, todo |-> <<>>, acc |-> <<>>]

\* the top-level call on a schema of the table
NestedStart(ref) ==
    [pc |-> "called", schema |-> ref, stack |-> <<Frame(ref)>>,
     has_ret |-> FALSE, ret |-> NoneValue, value |-> NoneValue, error |-> ""]

InitNested ==
    /\ ExecutorInit(<<>>)
    /\ enum_format = "value"
    /\ gen = GenIdle
    /\ \E ref \in SchemaRefs : val = NestedStart(ref)

Top(stack) == stack[Len(stack)]
Pop(stack) == SubSeq(stack, 1, Len(stack) - 1)
ReplaceTop(stack, frame) == [stack EXCEPT ![Len(stack)] = frame]

\* the innermost call returns v to its caller
Returns(v, value) == [v EXCEPT !.stack = Pop(@), !.has_ret = TRUE, !.ret = value]

\* the exception leaves every call of the stack: nothing catches it
Raises(v, error) == [v EXCEPT !.pc = "raised", !.error = error]

\* the innermost call starts its recursive calls, the first one at once
Recurses(v, todo) ==
    [v EXCEPT !.stack = Append(ReplaceTop(@, [Top(@) EXCEPT !.entered = TRUE, !.todo = todo]),
                               Frame(Head(todo).node))]

\* the properties the loop of lines 272-274 generates a value for: the
\* required ones and those of included that random.random() picked
Included(node, included) ==
    LET Kept(p) == p.name \in node.required \cup included
    IN SelectSeq(node.properties, Kept)

OptionalNames(node) ==
    {node.properties[k].name : k \in 1..Len(node.properties)} \ node.required

\* The innermost call runs from its entry to its first recursive call, to
\* its return or to its exception.
EnterSchema ==
    /\ val.pc = "called"
    /\ ~val.has_ret
    /\ LET node == SchemaTable[Top(val.stack).node] IN
         IF Len(val.stack) > RecursionLimit
            THEN val' = Raises(val, "RecursionError")
         ELSE IF node.type = "array"
            THEN IF RandIntRaises(MinItems(node), MaxItems(node))
                    THEN val' = Raises(val, "ValueError")
                    ELSE \E count \in MinItems(node)..MaxItems(node) :
                            IF count = 0
                               THEN val' = Returns(val, ListValue(<<>>))
                               ELSE val' = Recurses(val,
                                              [k \in 1..count |-> Property("", node.items)])
         ELSE IF node.type = "object"
            THEN \E included \in SUBSET OptionalNames(node) :
                    IF Included(node, included) = <<>>
                       THEN val' = Returns(val, ObjectValue(<<>>))
                       ELSE val' = Recurses(val, Included(node, included))
         ELSE IF GenerateValueRaises(node.leaf)
            THEN val' = Raises(val, "ValueError")
            ELSE \E v \in GenerateValueFromSchema(node.leaf) : val' = Returns(val, v)
    /\ UNCHANGED <<exec_vars, gen>>

\* A call has returned: its caller stores the value and makes its next
\* recursive call, or returns the list or dictionary it has built; the
\* value of the top-level call is the result.
ReturnValue ==
    /\ val.pc = "called"
    /\ val.has_ret
    /\ IF val.stack = <<>>
          THEN val' = [val EXCEPT !.pc = "returned", !.value = val.ret, !.has_ret = FALSE]
          ELSE LET caller == Top(val.stack)
                   acc == Append(caller.acc,
                                 [name |-> Head(caller.todo).name, value |-> val.ret])
                   todo == Tail(caller.todo)
               IN  IF todo = <<>>
                      THEN val' = Returns(val,
                                     IF SchemaTable[caller.node].type = "array"
                                        THEN ListValue([k \in 1..Len(acc) |-> acc[k].value])
                                        ELSE ObjectValue(acc))
                      ELSE val' = [val EXCEPT
                                     !.stack = Append(ReplaceTop(@, [caller EXCEPT
                                                                      !.acc = acc,
                                                                      !.todo = todo]),
                                                      Frame(Head(todo).node)),
                                     !.has_ret = FALSE]
    /\ UNCHANGED <<exec_vars, gen>>

NextNested ==
    \/ EnterSchema
    \/ ReturnValue

SpecNested == InitNested /\ [][NextNested]_vars

\* the schemas a schema contains directly
Children(ref) ==
    IF SchemaTable[ref].type = "array" THEN {SchemaTable[ref].items}
    ELSE {SchemaTable[ref].properties[k].node : k \in 1..Len(SchemaTable[ref].properties)}

\* the schemas reached from those of refs in at most n steps
RECURSIVE Within(_, _)
Within(refs, n) ==
    IF n = 0 THEN refs
    ELSE Within(refs \cup UNION {Children(r) : r \in refs}, n - 1)

\* no schema contained in this one contains itself
FinitelyNested(ref) ==
    \A r \in Within({ref}, Len(SchemaTable)) :
        r \notin Within(Children(r), Len(SchemaTable))

\* C22: a call of _generate_value_from_schema on a finitely nested schema
\* returns a value, and a call on a schema nested without end (one that
\* contains itself) ends with an error.
C22_FiniteSchemaYieldsValue ==
    val.pc \in {"returned", "raised"} =>
        IF FinitelyNested(val.schema) THEN val.pc = "returned" ELSE val.pc = "raised"

====
